---- MODULE Spec2Model ----
(***************************************************************************)
(* arniepye.server: the wrapper that prepares a packages directory,       *)
(* starts a pypiserver child process, polls it, and cleans up.            *)
(*                                                                         *)
(* The model follows one call of run(port, path, forever, temp) statement *)
(* by statement.  The file system under `path`, the access-control file   *)
(* and the child process are state shared with the environment: the child *)
(* may exit at any time, entries of the packages directory may be added   *)
(* or removed while the server is up, and a KeyboardInterrupt may be      *)
(* delivered to the main thread at any statement.                         *)
(***************************************************************************)
EXTENDS Integers, Sequences, FiniteSets, TLC

VARIABLES
    port,        \* argument of run
    forever,     \* argument of run
    temp,        \* argument of run
    pc,          \* the statement of run/_setup about to execute
    dirExists,   \* os.path.isdir(path)
    entries,     \* os.listdir(path)
    bsFiles,     \* os.listdir(path/bootstrap)
    script,      \* lines of path/bootstrap/bootstrap.py
    htaccess,    \* content of the file at settings.HTACCESS
    spawned,     \* subprocess.Popen(args) has returned a process
    returncode,  \* the child's exit status, None while it runs
    polls,       \* number of process.poll() calls (saturating)
    lastPoll,    \* value returned by the latest process.poll()
    calls,       \* the operations run has invoked, in order
    pending,     \* outcome of the try statement held while finally runs
    result,      \* what run gave its caller
    intAt,       \* statements at which a KeyboardInterrupt was delivered
    setupError,  \* the exception a step of _setup raised, if any
    found,       \* the directory content _teardown was applied to
    faults,      \* library calls the environment made fail
    snaps        \* the files as they were at the call, and after each _setup

vars == << port, forever, temp, pc, dirExists, entries, bsFiles, script,
           htaccess, spawned, returncode, polls, lastPoll, calls, pending,
           result, intAt, setupError, found, faults, snaps >>

inputs == << port, forever, temp >>
fs     == << dirExists, entries, bsFiles, script, htaccess >>
proc   == << spawned, returncode, polls, lastPoll >>

----------------------------------------------------------------------------
(* Bounds *)

MaxPkgs   == 2      \* package files that may appear in the directory
MaxPolls  == 3      \* the poll counter saturates here
MaxStatus == 1      \* the child exits with a status in 0..MaxStatus
MaxSetups == 2      \* calls of _setup on the same path in a row
MaxLines  == 3      \* lines of a bootstrap.py template
PortSpan  == 2      \* ports tried on either side of the HTTP port

(* Program constants *)

HTTP_PORT    == 80      \* the port whose segment is left out of the URL
DEFAULT_PORT == 8080    \* run's default port
None         == -1      \* Python's None as returned by Popen.poll()

Ports    == {HTTP_PORT, DEFAULT_PORT}
Pkgs     == 1..MaxPkgs
Packages == {<<"pkg", i>> : i \in Pkgs}
Hosts    == {"arnie", "arnie.example.org"}
BOOTSTRAP == <<"bootstrap">>

(* The bundle shipped in arniepye/files: a script holding the placeholder *)
(* line, and the access-control file.                                     *)
BundleFiles == {"bootstrap.py", "htaccess"}
Template ==
    << <<"import sys">>,
       <<"SERVER_URL = ", "None">>,
       <<"main()">> >>

StaleScript == << <<"SERVER_URL = ", "stale">> >>

KI == "KeyboardInterrupt"

----------------------------------------------------------------------------
(* _setup: URL and script rewriting (server.py 63-71) *)

PortSegmentAlways(p) == <<":", ToString(p)>>
PortSegment(p) == IF p = HTTP_PORT THEN <<>> ELSE <<":", ToString(p)>>

Url(host, p) ==
    <<"'", "http://", host>> \o PortSegment(p) \o <<"/simple/", "'">>

StartsWithPlaceholder(line) ==
    /\ Len(line) >= 2
    /\ line[1] = "SERVER_URL = "
    /\ line[2] = "None"

RECURSIVE Replace(_, _, _)
Replace(line, old, new) ==
    IF line = <<>> THEN <<>>
    ELSE (IF Head(line) = old THEN new ELSE <<Head(line)>>)
         \o Replace(Tail(line), old, new)

RewriteLineEvery(line, url) == Replace(line, "None", url)
RewriteLine(line, url) ==
    IF StartsWithPlaceholder(line) THEN Replace(line, "None", url) ELSE line

Rewrite(lines, url) == [i \in 1..Len(lines) |-> RewriteLine(lines[i], url)]

----------------------------------------------------------------------------
(* Control-flow helpers *)

SetupSteps == <<"mkdir", "rmtree", "copytree", "rewrite", "move">>

SetupPcs == {"setup_mkdir", "setup_rmtree", "setup_copytree",
             "setup_rewrite", "setup_move"}

RunEntrySpawnFirst == "spawn"
RunEntry == "setup_mkdir"

\* An exception raised in _setup, outside any try: it reaches run's caller.
SetupOutcomeSwallowed(ok, next, exc) ==
    IF ok THEN pc' = next /\ result' = result
          ELSE pc' = "done" /\ result' = "False"
SetupOutcome(ok, next, exc) ==
    IF ok THEN pc' = next /\ result' = result
          ELSE pc' = "done" /\ result' = exc

\* The statements inside the try block (lines 29-31).
InTryNone(p) == FALSE
InTry(p) == p \in {"try", "poll"}

\* The except clause (lines 32-34): still under the finally clause.
InExcept(p) == p = "except"

\* The loop condition of line 30.
KeepPollingTruthy(rc, fv) == (rc = None \/ rc = 0) /\ fv
KeepPollingAlways(rc, fv) == rc = None
KeepPollingNever(rc, fv) == FALSE
KeepPolling(rc, fv) == rc = None /\ fv

\* The condition of line 79.
ShouldRemoveIfEmpty(listing, remove) == Cardinality(listing) <= 1
ShouldRemove(listing, remove) == remove \/ Cardinality(listing) <= 1

Bump(n) == IF n < MaxPolls THEN n + 1 ELSE MaxPolls

\* The test of line 54.
NeedsMkdirAlways(exists) == TRUE
NeedsMkdir(exists) == ~exists

\* shutil.rmtree(bootstrap) of line 59 removes that one entry of the directory.
AfterRmtreeOfPath(es) == {}
AfterRmtree(es) == es \ {BOOTSTRAP}

\* shutil.move of line 74 puts the source in place of whatever is there.
MoveOntoKeepsExisting(old, new) == IF old = "absent" THEN new ELSE old
MoveOnto(old, new) == new

\* settings.HTACCESS (~/.htaccess) does not lie under the packages
\* directory (~/packages), so removing the directory leaves it alone.
HtaccessInsidePath == TRUE
HtaccessUnderPath == FALSE

\* An exception raised inside the finally clause (lines 36-37) leaves run
\* in place of the outcome that was pending.
CleanupOutcomeSuppressed(exc) == pc' = "done" /\ result' = pending
CleanupOutcome(exc) == pc' = "done" /\ result' = exc

\* The files run works on, as a value.
Snapshot ==
    [dir |-> dirExists, entries |-> entries, bsFiles |-> bsFiles,
     script |-> script, htaccess |-> htaccess]

----------------------------------------------------------------------------
InitBase ==
    /\ port \in Ports
    /\ forever \in BOOLEAN
    /\ temp \in BOOLEAN
    /\ pc = "call"
    /\ dirExists \in BOOLEAN
    /\ entries \in SUBSET ({BOOTSTRAP} \cup Packages)
    /\ (~dirExists => entries = {})
    /\ bsFiles = IF BOOTSTRAP \in entries THEN {"bootstrap.py", "leftover"} ELSE {}
    /\ script = IF BOOTSTRAP \in entries THEN StaleScript ELSE <<>>
    /\ htaccess \in {"absent", "old"}
    /\ spawned = FALSE
    /\ returncode = None
    /\ polls = 0
    /\ lastPoll = None
    /\ calls = <<>>
    /\ pending = "none"
    /\ result = "none"
    /\ intAt = {}
    /\ setupError = "none"
    /\ found = <<>>
    /\ faults = {}

Init == InitBase /\ snaps = <<>>

\* run is entered (line 19) and calls _setup (line 23).
Call ==
    /\ pc = "call"
    /\ pc' = RunEntry
    /\ UNCHANGED << inputs, fs, proc, calls, pending, result, intAt,
                    setupError, found,
                    faults, snaps >>

\* Lines 54-56: create the packages directory unless it is one already.
\* os.mkdir raises on a path that exists.
SetupMkdir ==
    /\ pc = "setup_mkdir"
    /\ IF ~NeedsMkdir(dirExists)
         THEN /\ pc' = "setup_rmtree"
              /\ UNCHANGED << dirExists, entries, calls, result, setupError,
                              faults >>
         ELSE /\ calls' = Append(calls, "mkdir")
              /\ \E ok \in BOOLEAN :
                    /\ dirExists => ~ok
                    /\ dirExists' = (dirExists \/ ok)
                    /\ entries' = entries
                    /\ faults' = IF ok \/ dirExists THEN faults
                                 ELSE faults \cup {"mkdir"}
                    /\ setupError' = IF ok THEN "none" ELSE "OSError:mkdir"
                    /\ SetupOutcome(ok, "setup_rmtree", "OSError:mkdir")
    /\ UNCHANGED << inputs, bsFiles, script, htaccess, proc, pending, intAt,
                    found, snaps >>

\* Line 59: shutil.rmtree(bootstrap, ignore_errors=True) never raises; a
\* failed removal leaves the old subdirectory in place.
SetupRmtree ==
    /\ pc = "setup_rmtree"
    /\ calls' = Append(calls, "rmtree")
    /\ pc' = "setup_copytree"
    /\ \/ /\ entries' = AfterRmtree(entries)
          /\ bsFiles' = {}
          /\ script' = <<>>
          /\ UNCHANGED faults
       \/ /\ BOOTSTRAP \in entries
          /\ faults' = faults \cup {"rmtree"}
          /\ UNCHANGED << entries, bsFiles, script >>
    /\ UNCHANGED << inputs, dirExists, htaccess, proc, pending, result, intAt,
                    setupError, found, snaps >>

\* Line 60: shutil.copytree(FILES, bootstrap) needs a fresh destination; a
\* copy that fails part-way leaves what it had copied.
SetupCopytree ==
    /\ pc = "setup_copytree"
    /\ calls' = Append(calls, "copytree")
    /\ IF BOOTSTRAP \in entries
         THEN /\ setupError' = "OSError:copytree"
              /\ SetupOutcome(FALSE, "setup_rewrite", "OSError:copytree")
              /\ UNCHANGED << entries, bsFiles, script, faults >>
         ELSE \E ok \in BOOLEAN :
              /\ entries' = entries \cup {BOOTSTRAP}
              /\ bsFiles' = IF ok THEN BundleFiles ELSE {"bootstrap.py"}
              /\ script' = Template
              /\ faults' = IF ok THEN faults ELSE faults \cup {"copytree"}
              /\ setupError' = IF ok THEN "none" ELSE "OSError:copytree"
              /\ SetupOutcome(ok, "setup_rewrite", "OSError:copytree")
    /\ UNCHANGED << inputs, dirExists, htaccess, proc, pending, intAt, found,
                    snaps >>

\* Lines 62-71: rewrite the placeholder line of bootstrap.py with the URL
\* built from socket.getfqdn() and the port.
SetupRewrite ==
    /\ pc = "setup_rewrite"
    /\ calls' = Append(calls, "rewrite")
    /\ \E ok \in BOOLEAN, host \in Hosts :
          /\ script' = IF ok THEN Rewrite(script, Url(host, port)) ELSE script
          /\ faults' = IF ok THEN faults ELSE faults \cup {"rewrite"}
          /\ setupError' = IF ok THEN "none" ELSE "IOError:rewrite"
          /\ SetupOutcome(ok, "setup_move", "IOError:rewrite")
    /\ UNCHANGED << inputs, dirExists, entries, bsFiles, htaccess, proc,
                    pending, intAt, found, snaps >>

\* Lines 73-74: move bootstrap/htaccess to settings.HTACCESS.
SetupMove ==
    /\ pc = "setup_move"
    /\ calls' = Append(calls, "move")
    /\ \E ok \in BOOLEAN :
          /\ "htaccess" \notin bsFiles => ~ok
          /\ htaccess' = IF ok THEN MoveOnto(htaccess, "fresh") ELSE htaccess
          /\ bsFiles' = IF ok THEN bsFiles \ {"htaccess"} ELSE bsFiles
          /\ faults' = IF ok \/ "htaccess" \notin bsFiles THEN faults
                       ELSE faults \cup {"move"}
          /\ setupError' = IF ok THEN "none" ELSE "OSError:move"
          /\ SetupOutcome(ok, "spawn", "OSError:move")
    /\ UNCHANGED << inputs, dirExists, entries, script, proc, pending, intAt,
                    found, snaps >>

Setup == SetupMkdir \/ SetupRmtree \/ SetupCopytree \/ SetupRewrite \/ SetupMove

\* Lines 26-27 and 43-48: subprocess.Popen(args) starts the child.
Spawn ==
    /\ pc = "spawn"
    /\ calls' = Append(calls, "spawn")
    /\ spawned' = TRUE
    /\ pc' = "spawned"
    /\ UNCHANGED << inputs, fs, returncode, polls, lastPoll, pending, result,
                    intAt, setupError, found,
                    faults, snaps >>

\* Line 28: the try statement is entered.
EnterTry ==
    /\ pc = "spawned"
    /\ pc' = "try"
    /\ UNCHANGED << inputs, fs, proc, calls, pending, result, intAt,
                    setupError, found,
                    faults, snaps >>

\* Line 29: logging.debug inside the try block.
LogStarted ==
    /\ pc = "try"
    /\ pc' = "poll"
    /\ UNCHANGED << inputs, fs, proc, calls, pending, result, intAt,
                    setupError, found,
                    faults, snaps >>

\* Lines 30-31: one evaluation of the loop condition.  process.poll() comes
\* first in it, so it is called whatever `forever` is.
Poll ==
    /\ pc = "poll"
    /\ polls' = Bump(polls)
    /\ lastPoll' = returncode
    /\ IF KeepPolling(returncode, forever)
         THEN UNCHANGED << pc, pending >>
         ELSE pc' = "finally" /\ pending' = "True"
    /\ UNCHANGED << inputs, fs, spawned, returncode, calls, result, intAt,
                    setupError, found,
                    faults, snaps >>

\* Lines 33-34: the except clause logs and returns False.
Except ==
    /\ pc = "except"
    /\ pending' = "False"
    /\ pc' = "finally"
    /\ UNCHANGED << inputs, fs, proc, calls, result, intAt, setupError, found,
                    faults, snaps >>

\* Line 36: process.terminate().
Terminate ==
    /\ pc = "finally"
    /\ calls' = Append(calls, "terminate")
    /\ pc' = "teardown"
    /\ UNCHANGED << inputs, fs, proc, pending, result, intAt, setupError,
                    found,
                    faults, snaps >>

\* Lines 37 and 77-81: _teardown(path, remove=temp).
Teardown ==
    /\ pc = "teardown"
    /\ calls' = Append(calls, "teardown")
    /\ found' = << entries >>
    /\ IF ShouldRemove(entries, temp)
         THEN /\ dirExists' = FALSE
              /\ entries' = {}
              /\ bsFiles' = {}
              /\ script' = <<>>
         ELSE UNCHANGED << dirExists, entries, bsFiles, script >>
    /\ htaccess' = IF ShouldRemove(entries, temp) /\ HtaccessUnderPath
                       THEN "absent" ELSE htaccess
    /\ pc' = "log_stopped"
    /\ UNCHANGED << inputs, proc, pending, result, intAt,
                    setupError,
                    faults, snaps >>

\* Line 38: the last statement of the finally clause; the pending outcome
\* of the try statement then takes effect.
LogStopped ==
    /\ pc = "log_stopped"
    /\ IF pending = "True"
         THEN pc' = "return" /\ UNCHANGED result
         ELSE pc' = "done" /\ result' = pending
    /\ UNCHANGED << inputs, fs, proc, calls, pending, intAt, setupError,
                    found,
                    faults, snaps >>

\* Line 40: return True.
ReturnTrue ==
    /\ pc = "return"
    /\ pc' = "done"
    /\ result' = "True"
    /\ UNCHANGED << inputs, fs, proc, calls, pending, intAt, setupError,
                    found,
                    faults, snaps >>

\* A KeyboardInterrupt is raised in the main thread at the current
\* statement.  Inside the try block it is caught by the except clause;
\* inside the except clause the finally clause still runs and the interrupt
\* propagates afterwards; anywhere else it leaves run at once.
Interrupt ==
    /\ pc \notin {"call", "done"}
    /\ intAt' = intAt \cup {pc}
    /\ IF InTry(pc)
         THEN pc' = "except" /\ UNCHANGED << pending, result >>
         ELSE IF InExcept(pc)
           THEN pc' = "finally" /\ pending' = KI /\ UNCHANGED result
           ELSE pc' = "done" /\ result' = KI /\ UNCHANGED pending
    /\ UNCHANGED << inputs, fs, proc, calls, setupError, found,
                    faults, snaps >>

\* The child process ends by itself.
ChildExit ==
    /\ spawned
    /\ pc # "done"
    /\ returncode = None
    /\ \E status \in 0..MaxStatus : returncode' = status
    /\ UNCHANGED << inputs, fs, pc, spawned, polls, lastPoll, calls, pending,
                    result, intAt, setupError, found,
                    faults, snaps >>

\* While the server is up, a package is uploaded into the directory.
AddPackage ==
    /\ spawned
    /\ pc # "done"
    /\ dirExists
    /\ \E p \in Packages \ entries : entries' = entries \cup {p}
    /\ UNCHANGED << inputs, pc, dirExists, bsFiles, script, htaccess, proc,
                    calls, pending, result, intAt, setupError, found,
                    faults, snaps >>

\* While the server is up, somebody deletes an entry of the directory.
RemoveEntry ==
    /\ spawned
    /\ pc # "done"
    /\ dirExists
    /\ \E e \in entries :
          /\ entries' = entries \ {e}
          /\ bsFiles' = IF e = BOOTSTRAP THEN {} ELSE bsFiles
          /\ script' = IF e = BOOTSTRAP THEN <<>> ELSE script
    /\ UNCHANGED << inputs, pc, dirExists, htaccess, proc, calls, pending,
                    result, intAt, setupError, found,
                    faults, snaps >>

Run ==
    \/ Call \/ Setup \/ Spawn \/ EnterTry \/ LogStarted \/ Poll \/ Except
    \/ Terminate \/ Teardown \/ LogStopped \/ ReturnTrue

Environment == Interrupt \/ ChildExit \/ AddPackage \/ RemoveEntry

Next == Run \/ Environment

Spec == Init /\ [][Next]_vars

\* The interpreter keeps executing run; the environment is under no
\* obligation to do anything.
FairSpec == Spec /\ WF_vars(Run)

----------------------------------------------------------------------------
(* _setup called again and again on the same path with the same port, as *)
(* successive runs do; the files are recorded before the first call and  *)
(* after each completed one.                                             *)

SetupInit == InitBase /\ snaps = << Snapshot >>

SetupAgain ==
    /\ pc = "spawn"
    /\ Len(snaps) < MaxSetups
    /\ snaps' = Append(snaps, Snapshot)
    /\ pc' = "setup_mkdir"
    /\ UNCHANGED << inputs, fs, proc, calls, pending, result, intAt,
                    setupError, found, faults >>

SetupNext == Call \/ Setup \/ SetupAgain

SetupSpec == SetupInit /\ [][SetupNext]_vars

----------------------------------------------------------------------------
(* run with a cleanup that can fail: process.terminate() may raise (the  *)
(* process is gone, the signal is refused) and so may _teardown          *)
(* (os.listdir or shutil.rmtree refused).  Neither call is inside a try  *)
(* of its own, so the exception leaves the finally clause at once.       *)

TerminateFails ==
    /\ pc = "finally"
    /\ calls' = Append(calls, "terminate")
    /\ faults' = faults \cup {"terminate"}
    /\ CleanupOutcome("OSError:terminate")
    /\ UNCHANGED << inputs, fs, proc, pending, intAt, setupError, found,
                    snaps >>

TeardownFails ==
    /\ pc = "teardown"
    /\ calls' = Append(calls, "teardown")
    /\ faults' = faults \cup {"teardown"}
    /\ found' = << entries >>
    /\ CleanupOutcome("OSError:teardown")
    /\ UNCHANGED << inputs, fs, proc, pending, intAt, setupError, snaps >>

CleanupFailNext == Next \/ TerminateFails \/ TeardownFails

CleanupFailSpec == Init /\ [][CleanupFailNext]_vars

----------------------------------------------------------------------------
(* The rendering steps of _setup (lines 62-74) applied to any bootstrap  *)
(* script of up to MaxLines lines and to a range of ports.               *)

TemplateLines ==
    { <<"import sys">>,
      <<"SERVER_URL = ", "None">>,
      <<"SERVER_URL = ", "None", "  # ", "None">>,
      <<"FALLBACK = ", "None">> }

Templates == UNION {[1..n -> TemplateLines] : n \in 0..MaxLines}

RenderPorts ==
    ((HTTP_PORT - PortSpan)..(HTTP_PORT + PortSpan)) \cup {DEFAULT_PORT}

RenderInit ==
    /\ port \in RenderPorts
    /\ forever = TRUE
    /\ temp = FALSE
    /\ pc = "setup_rewrite"
    /\ dirExists = TRUE
    /\ entries = {BOOTSTRAP}
    /\ bsFiles = BundleFiles
    /\ script \in Templates
    /\ htaccess = "absent"
    /\ spawned = FALSE
    /\ returncode = None
    /\ polls = 0
    /\ lastPoll = None
    /\ calls = <<"rmtree", "copytree">>
    /\ pending = "none"
    /\ result = "none"
    /\ intAt = {}
    /\ setupError = "none"
    /\ found = <<>>
    /\ faults = {}
    /\ snaps = << Snapshot >>

RenderNext == SetupRewrite \/ SetupMove

RenderSpec == RenderInit /\ [][RenderNext]_vars

----------------------------------------------------------------------------
(* Vocabulary of the properties *)

Range(s) == {s[i] : i \in 1..Len(s)}

Count(op) == Cardinality({i \in 1..Len(calls) : calls[i] = op})

IndexOf(op) == CHOOSE i \in 1..Len(calls) : calls[i] = op

IsCleanup(op) == op \in {"terminate", "teardown"}

CleanupCalls == SelectSeq(calls, IsCleanup)

Finished == pc = "done"

Returned == Finished /\ result \in {"True", "False"}

SetupErrors == {"OSError:mkdir", "OSError:copytree", "IOError:rewrite",
                "OSError:move"}

ErrorOf(op) ==
    CASE op = "mkdir"    -> "OSError:mkdir"
      [] op = "copytree" -> "OSError:copytree"
      [] op = "rewrite"  -> "IOError:rewrite"
      [] op = "move"     -> "OSError:move"
      [] OTHER           -> "none"

Rendered == {Rewrite(Template, Url(h, port)) : h \in Hosts}

----------------------------------------------------------------------------
(* C1: in every call of run that spawned the child, process.terminate()  *)
(* has been requested exactly once when run returns or raises, whichever *)
(* way it ends, an interrupt at any statement after the spawn included.  *)
C1_TerminateExactlyOnce ==
    /\ Count("terminate") <= 1
    /\ (Finished /\ spawned) => Count("terminate") = 1

(* C2: a KeyboardInterrupt delivered while run is at the polling loop,   *)
(* on the first poll or after several polls that saw the child running,  *)
(* is not propagated: the loop is abandoned and run returns False.       *)
C2_InterruptReturnsFalse ==
    (intAt = {"poll"}) =>
        /\ pc \in {"except", "finally", "teardown", "log_stopped", "done"}
        /\ result \in {"none", "False"}
        /\ (Finished => result = "False")

C2_Witness ==
    /\ Finished
    /\ intAt = {"poll"}
    /\ result = "False"
    /\ polls >= 2
    /\ lastPoll = None

(* C3: with forever=True and no interrupt, a poll that reports the       *)
(* child's exit status, zero or not, ends the loop and run returns True; *)
(* and once the child has exited, run does eventually return True.       *)
C3_Safe ==
    (forever /\ spawned /\ intAt = {}) =>
        /\ (lastPoll # None => pc # "poll")
        /\ (Finished => result = "True" /\ lastPoll # None)

C3_NaturalExit ==
    /\ []C3_Safe
    /\ (forever /\ spawned /\ returncode # None)
           ~> (result = "True" \/ intAt # {})

C3_Witness ==
    /\ Finished
    /\ forever
    /\ intAt = {}
    /\ result = "True"
    /\ lastPoll = 0
    /\ polls >= 2

(* C4: with forever=False run polls the child exactly once, never twice, *)
(* returns True when not interrupted whether the child was running or    *)
(* had exited, and always comes to an end.                               *)
C4_Safe ==
    (~forever) =>
        /\ polls <= 1
        /\ (Finished /\ spawned /\ intAt = {}) => (polls = 1 /\ result = "True")

C4_SelfTest ==
    /\ []C4_Safe
    /\ (~forever /\ spawned) ~> Finished

C4_Witness ==
    /\ Finished
    /\ ~forever
    /\ intAt = {}
    /\ result = "True"
    /\ polls = 1
    /\ lastPoll = None

(* C5: _teardown removes the directory when remove is true or the      *)
(* directory's only entry is the bootstrap subdirectory, and leaves a    *)
(* directory that holds anything besides 'bootstrap' in place when       *)
(* remove is false.                                                      *)
C5_RemoveIffOnlyBootstrap ==
    (pc = "log_stopped") =>
        /\ (temp \/ found[1] = {BOOTSTRAP}) => ~dirExists
        /\ (~temp /\ found[1] \ {BOOTSTRAP} # {}) => dirExists

(* C6: after a run with temp=True that spawned the child and returned,   *)
(* the packages directory is gone, whatever it held.                     *)
C6_TempRemovesDirectory ==
    (temp /\ spawned /\ Returned) => ~dirExists

C6_Witness ==
    /\ temp
    /\ spawned
    /\ Returned
    /\ result = "False"
    /\ ~dirExists
    /\ "mkdir" \notin Range(calls)
    /\ Packages \subseteq found[1]

(* C7: in every run that spawned the child the cleanup runs exactly once *)
(* and in order: terminate, then the directory teardown.                 *)
C7_CleanupOnceInOrder ==
    (Finished /\ spawned) => CleanupCalls = <<"terminate", "teardown">>

(* C8: when _setup raises after it created the directory or part of the  *)
(* bootstrap subdirectory, nothing is spawned or terminated, and the     *)
(* directory teardown is attempted before the error reaches the caller.  *)
C8_TeardownAfterFailedSetup ==
    (/\ Finished
     /\ setupError # "none"
     /\ \/ "mkdir" \in Range(calls) /\ dirExists
        \/ setupError \in {"IOError:rewrite", "OSError:move"})
    => /\ ~spawned
       /\ "terminate" \notin Range(calls)
       /\ "teardown" \in Range(calls)

(* C9: an error raised by a step of _setup reaches run's caller as that  *)
(* exception: the step is not retried, nothing runs after it, run gives  *)
(* no boolean, and the child is never spawned.                           *)
C9_SetupErrorPropagates ==
    /\ \A i \in 1..Len(SetupSteps) : Count(SetupSteps[i]) <= 1
    /\ (setupError # "none") =>
          /\ Finished
          /\ result = setupError
          /\ setupError = ErrorOf(calls[Len(calls)])
          /\ ~spawned
          /\ "spawn" \notin Range(calls)

C9_Witness ==
    /\ Finished
    /\ setupError = "OSError:copytree"
    /\ result = "OSError:copytree"
    /\ calls = <<"mkdir", "rmtree", "copytree">>
    /\ ~spawned

(* C10: while the child is spawned and not yet asked to terminate, the   *)
(* whole of _setup has run before the spawn and without error, the       *)
(* directory exists and the access-control file is in place; and at the  *)
(* spawn itself the bootstrap subdirectory is the freshly rendered one.  *)
C10_Safe ==
    (spawned /\ "terminate" \notin Range(calls)) =>
        /\ setupError = "none"
        /\ \E k \in {0, 1} :
              /\ Len(calls) >= k + 5
              /\ k = Count("mkdir")
              /\ SubSeq(calls, k + 1, k + 5)
                    = <<"rmtree", "copytree", "rewrite", "move", "spawn">>
        /\ dirExists
        /\ htaccess = "fresh"

C10_AtSpawn ==
    (~spawned /\ spawned') =>
        /\ dirExists
        /\ BOOTSTRAP \in entries
        /\ bsFiles = {"bootstrap.py"}
        /\ script \in Rendered
        /\ htaccess = "fresh"

C10_SetupBeforeSpawn == []C10_Safe /\ [][C10_AtSpawn]_vars

C10_Witness ==
    /\ spawned
    /\ pc = "poll"
    /\ "terminate" \notin Range(calls)
    /\ "mkdir" \in Range(calls)
    /\ htaccess = "fresh"
    /\ polls >= 1

(* C11: _setup is idempotent.  Called repeatedly on one path with one    *)
(* port it raises only when a library call fails under it, the directory *)
(* exists after each call, and each call leaves the same files as the    *)
(* one before: bootstrap holds the rendered script and nothing else, the *)
(* access-control file is the fresh copy (the script may differ only in  *)
(* the host name socket.getfqdn() gave).                                 *)
SameFiles(a, b) ==
    /\ a.dir = b.dir
    /\ a.entries = b.entries
    /\ a.bsFiles = b.bsFiles
    /\ a.htaccess = b.htaccess
    /\ a.script \in Rendered
    /\ b.script \in Rendered

C11_SetupIdempotent ==
    /\ (faults = {}) => setupError = "none"
    /\ (pc = "spawn") =>
          /\ dirExists
          /\ BOOTSTRAP \in entries
          /\ bsFiles = {"bootstrap.py"}
          /\ script \in Rendered
          /\ htaccess = "fresh"
          /\ \A k \in 2..Len(snaps) : SameFiles(snaps[k], Snapshot)

C11_Witness ==
    /\ pc = "spawn"
    /\ Len(snaps) = 2
    /\ Count("rmtree") = 2
    /\ "leftover" \in snaps[1].bsFiles
    /\ snaps[2].script = script
    /\ Packages \subseteq entries
    /\ setupError = "none"

(* C12: rendering keeps the number and order of the script's lines and   *)
(* every line that is not a placeholder line; in a script with exactly   *)
(* one placeholder line that line alone differs, and it then starts with *)
(* SERVER_URL = followed by the quoted URL.                              *)
Rewritten == "rewrite" \in Range(calls) /\ "rewrite" \notin faults

PlaceholderLines(t) == {i \in 1..Len(t) : StartsWithPlaceholder(t[i])}

C12_RenderFrame ==
    Rewritten =>
        LET t == snaps[1].script
            out == script
        IN  /\ Len(out) = Len(t)
            /\ \A i \in 1..Len(t) :
                  ~StartsWithPlaceholder(t[i]) => out[i] = t[i]
            /\ (Cardinality(PlaceholderLines(t)) = 1) =>
                  \E h \in Hosts :
                     LET k == CHOOSE i \in PlaceholderLines(t) : TRUE
                         u == Url(h, port)
                     IN  /\ {i \in 1..Len(t) : out[i] # t[i]} = {k}
                         /\ Len(out[k]) >= 1 + Len(u)
                         /\ SubSeq(out[k], 1, 1 + Len(u))
                               = <<"SERVER_URL = ">> \o u

C12_Witness ==
    /\ Rewritten
    /\ snaps[1].script = << <<"FALLBACK = ", "None">>,
                            <<"SERVER_URL = ", "None">>,
                            <<"import sys">> >>
    /\ script[1] = <<"FALLBACK = ", "None">>
    /\ script[2] # <<"SERVER_URL = ", "None">>
    /\ script[3] = <<"import sys">>

(* C13: the URL written by _setup is 'http://<fqdn>/simple/' when the    *)
(* port is 80 and 'http://<fqdn>:<port>/simple/' for every other port.   *)
UrlShape(line, h, p) ==
    IF p = 80
      THEN /\ Len(line) >= 6
           /\ SubSeq(line, 2, 6) = <<"'", "http://", h, "/simple/", "'">>
      ELSE /\ Len(line) >= 8
           /\ SubSeq(line, 2, 8)
                 = <<"'", "http://", h, ":", ToString(p), "/simple/", "'">>

C13_UrlShape ==
    Rewritten =>
        \A i \in PlaceholderLines(snaps[1].script) :
            \E h \in Hosts : UrlShape(script[i], h, port)

C13_Witness ==
    /\ Rewritten
    /\ port = 80
    /\ snaps[1].script = << <<"SERVER_URL = ", "None">> >>
    /\ script = << <<"SERVER_URL = ", "'", "http://", "arnie", "/simple/", "'">> >>

(* C14: after every successful _setup the file at settings.HTACCESS is   *)
(* the fresh copy from the bundle, whatever was there before, and the    *)
(* bootstrap subdirectory no longer holds the access-control file.       *)
C14_HtaccessInPlace ==
    (pc = "spawn") =>
        /\ htaccess = "fresh"
        /\ "htaccess" \notin bsFiles
        /\ snaps[1].htaccess \in {"absent", "old"}

C14_Witness ==
    /\ pc = "spawn"
    /\ Len(snaps) = 1
    /\ snaps[1].htaccess = "old"
    /\ htaccess = "fresh"
    /\ bsFiles = {"bootstrap.py"}

(* C15: a supervised run goes Spawned, Polling, then Exited or           *)
(* Interrupted, then Terminated: terminate is requested only after a     *)
(* poll saw the child's exit status or after an interrupt of the loop,   *)
(* the except clause is entered only by an interrupt, and after either   *)
(* of the two terminate is always requested.                             *)
ExitObserved == lastPoll # None

InterruptedInLoop == intAt \cap {"try", "poll"} # {}

Terminated == "terminate" \in Range(calls)

C15_StateMachine ==
    (Finished /\ spawned) =>
        /\ Terminated => (ExitObserved \/ InterruptedInLoop)
        /\ (result = "False") => InterruptedInLoop
        /\ (ExitObserved \/ InterruptedInLoop) => Terminated

(* C16: with forever=True, while every poll has reported the child as    *)
(* running and no interrupt has arrived, run stays at the loop: it has   *)
(* not requested termination, not torn the directory down, not returned; *)
(* a child that no poll has seen exit is terminated only after an        *)
(* interrupt.                                                            *)
C16_KeepsPolling ==
    (forever /\ spawned /\ lastPoll = None) =>
        /\ (intAt = {}) =>
              /\ pc \in {"spawned", "try", "poll"}
              /\ ~Terminated
              /\ "teardown" \notin Range(calls)
              /\ result = "none"
              /\ dirExists
        /\ Terminated => intAt # {}

C16_Witness ==
    /\ forever
    /\ spawned
    /\ pc = "poll"
    /\ polls >= 3
    /\ lastPoll = None
    /\ returncode = None
    /\ intAt = {}
    /\ calls[Len(calls)] = "spawn"

(* C17: an exception raised by terminate or by the teardown inside the   *)
(* finally clause leaves run in place of the pending True or False, and  *)
(* after a failing terminate the teardown is not executed.               *)
C17_CleanupErrorPropagates ==
    /\ ("terminate" \in faults) =>
          /\ Finished
          /\ result = "OSError:terminate"
          /\ "teardown" \notin Range(calls)
          /\ found = <<>>
    /\ ("teardown" \in faults) =>
          /\ Finished
          /\ result = "OSError:teardown"
    /\ (faults \cap {"terminate", "teardown"} # {}) =>
          /\ pending \in {"True", "False", KI}
          /\ result # pending

C17_Witness ==
    /\ Finished
    /\ "teardown" \in faults
    /\ pending = "False"
    /\ result = "OSError:teardown"
    /\ CleanupCalls = <<"terminate", "teardown">>

(* C18: no step of run, _setup included, adds, removes or replaces an    *)
(* entry of the directory other than 'bootstrap' as long as the          *)
(* directory is kept; only the served process and its users change them. *)
C18_Step ==
    ((Run \/ Interrupt) /\ dirExists') =>
        (entries' \ {BOOTSTRAP} = entries \ {BOOTSTRAP})

C18_SetupFrame == [][C18_Step]_vars

C18_Witness ==
    /\ Finished
    /\ ~temp
    /\ result = "True"
    /\ "mkdir" \notin Range(calls)
    /\ dirExists
    /\ found = << entries >>
    /\ entries = {BOOTSTRAP} \cup Packages

(* C19: the teardown leaves the access-control file alone: once _setup   *)
(* has put it in place it is still there with that content after the     *)
(* teardown, also when the packages directory was removed.               *)
C19_Safe ==
    ("teardown" \in Range(calls)) => htaccess = "fresh"

C19_Step == (pc = "teardown") => (htaccess' = htaccess)

C19_TeardownKeepsHtaccess == []C19_Safe /\ [][C19_Step]_vars

C19_Witness ==
    /\ Finished
    /\ temp
    /\ result = "True"
    /\ "teardown" \in Range(calls)
    /\ ~dirExists
    /\ Packages \subseteq found[1]
    /\ htaccess = "fresh"

====
